---- MODULE Spec2Model ----
(***************************************************************************)
(* A model of src/src/index.js: the in-memory session store, the tool      *)
(* registry and the agent loop of POST /chat, with the DELETE and GET      *)
(* session endpoints.                                                      *)
(*                                                                         *)
(* A handler runs to completion between two suspension points, so one      *)
(* action is one synchronous stretch of a handler: from the arrival of a   *)
(* request to its first `await`, or from the settlement of an awaited      *)
(* model call to the next `await` or to the response.                      *)
(***************************************************************************)
EXTENDS Integers, Sequences, FiniteSets, TLC

VARIABLES
    messageHistory,  \* the Map session_id -> array (a reference into arrays)
    arrays,          \* the array objects ever stored in messageHistory
    pc,              \* where each POST /chat request stands
    message,         \* the request's message
    session_id,      \* the request's session_id (after defaulting)
    messages,        \* the request's `messages`: a reference to an array
    totalUsage,      \* the request's running usage total
    iterations,      \* the request's iteration counter
    res,             \* the HTTP response each POST /chat request was given
    sent,            \* the transcript passed with the outstanding model call
    received,        \* history: the model responses each request received
    calls,           \* history: how many model calls each request issued
    toolRuns,        \* history: how many times each request ran executeTool
    failed,          \* history: a model call of the request was rejected
    cleared,         \* history: the request's session was deleted under it
    lastSync         \* the response of the last DELETE or GET request

vars == <<messageHistory, arrays, pc, message, session_id, messages,
          totalUsage, iterations, res, sent, received, calls, toolRuns, failed,
          cleared, lastSync>>

-----------------------------------------------------------------------------
(* Bounds of the model. *)

\* How many tool-dispatching responses the model client gives in all, where
\* requests run concurrently (Spec).
MaxDispatches == 1
\* How many responses with several tool-use blocks the model client gives.
MaxMixed == 1

Requests == {"r1", "r2"}
SessionIds == {"default", "s2"}

(* Values of JavaScript that have no TLA+ counterpart. *)
Undefined == "<undefined>"
NoRef == "<none>"

-----------------------------------------------------------------------------
(* Program constants. *)

maxIterations == 10

-----------------------------------------------------------------------------
(* Content blocks, turns and model responses. *)

Text(t) == [type |-> "text", text |-> t]
ToolUse(i, n, in) == [type |-> "tool_use", id |-> i, name |-> n, input |-> in]

\* A tool input: an object with an optional timezone, or null.
Input(tz) == [isNull |-> FALSE, timezone |-> tz]
NullInput == [isNull |-> TRUE, timezone |-> Undefined]

\* { role: 'user', content: message }
TextTurn(role, t, r) ==
    [role |-> role, kind |-> "text", text |-> t, blocks |-> <<>>, by |-> r]
\* { role: ..., content: [blocks] }
BlockTurn(role, bs, r) ==
    [role |-> role, kind |-> "blocks", text |-> "", blocks |-> bs, by |-> r]

Usage(i, o) == [input_tokens |-> i, output_tokens |-> o]
Response(sr, c, u) == [stop_reason |-> sr, content |-> c, usage |-> u]

\* The responses the model client may give.
RespHello == Response("end_turn", <<Text("Hello")>>, Usage(12, 5))
RespNoText == Response("end_turn", <<>>, Usage(7, 0))
RespToolUseNoBlock == Response("tool_use", <<Text("thinking")>>, Usage(9, 3))
RespMaxTokens ==
    Response("max_tokens",
             <<ToolUse("t1", "get_current_time", Input(Undefined)),
               Text("It is now noon"), Text("bye")>>,
             Usage(30, 1024))
RespTime ==
    Response("tool_use",
             <<Text("Let me check"),
               ToolUse("t1", "get_current_time", Input(Undefined))>>,
             Usage(20, 8))
RespMixed ==
    Response("tool_use",
             <<ToolUse("t1", "lookup_weather", Input(Undefined)),
               Text("and the time"),
               ToolUse("t2", "get_current_time", Input("Mars/Phobos")),
               ToolUse("t3", "get_current_time", Input("Europe/London"))>>,
             Usage(25, 40))
RespNullInput ==
    Response("tool_use",
             <<ToolUse("t1", "get_current_time", NullInput)>>,
             Usage(21, 6))

RespNullThenUnknown ==
    Response("tool_use",
             <<ToolUse("t1", "get_current_time", NullInput),
               ToolUse("t2", "lookup_weather", Input(Undefined))>>,
             Usage(22, 9))

Responses == {RespHello, RespNoText, RespToolUseNoBlock, RespMaxTokens,
              RespTime, RespMixed, RespNullInput, RespNullThenUnknown}

\* The request bodies of POST /chat: message and session_id, each optional.
Bodies == [message : {Undefined, "", "hi"},
           session_id : {Undefined} \cup SessionIds]

-----------------------------------------------------------------------------
(* The tool registry. *)

\* The instant `new Date()` yields, with the renderings the tool reads off it.
Now == [iso |-> "2025-06-01T12:00:00.000Z",
        utc |-> "Sun, 01 Jun 2025 12:00:00 GMT",
        unix |-> "1748779200"]

\* The identifiers Intl accepts; any other makes toLocaleString throw RangeError.
ValidTimeZones == {"UTC", "Europe/London"}

\* now.toLocaleString('en-US', { timeZone })
toLocaleString(now, timeZone) ==
    IF timeZone = "Europe/London" THEN "6/1/2025, 1:00:00 PM"
    ELSE "6/1/2025, 12:00:00 PM"

\* Reading toolInput.timezone throws TypeError when toolInput is null.
Throws(toolName, toolInput) ==
    toolName = "get_current_time" /\ toolInput.isNull

\* toolInput.timezone || 'UTC'
TimezoneOf(toolInput) ==
    IF toolInput.timezone \in {Undefined, ""} THEN "UTC" ELSE toolInput.timezone

\* The value executeTool returns, where it does not throw.
executeTool(toolName, toolInput) ==
    IF toolName = "get_current_time"
    THEN LET timezone == TimezoneOf(toolInput)
         IN  IF timezone \in ValidTimeZones
             THEN [iso |-> Now.iso,
                   formatted |-> toLocaleString(Now, timezone),
                   timezone |-> timezone,
                   unix_timestamp |-> Now.unix]
             ELSE [iso |-> Now.iso,
                   formatted |-> Now.utc,
                   timezone |-> "UTC",
                   unix_timestamp |-> Now.unix,
                   note |-> <<"Invalid timezone ", timezone, ", defaulted to UTC">>]
    ELSE [error |-> "Unknown tool: " \o toolName]

\* JSON.stringify of a string without quotes or backslashes.
Quoted(s) == "\"" \o s \o "\""

\* JSON.stringify of a result of executeTool. The note holds its timezone
\* between double quotes, which are escaped.
JSONstringify(result) ==
    IF "error" \in DOMAIN result
    THEN "{\"error\":" \o Quoted(result.error) \o "}"
    ELSE "{\"iso\":" \o Quoted(result.iso)
         \o ",\"formatted\":" \o Quoted(result.formatted)
         \o ",\"timezone\":" \o Quoted(result.timezone)
         \o ",\"unix_timestamp\":" \o result.unix_timestamp
         \o (IF "note" \in DOMAIN result
             THEN ",\"note\":\"" \o result.note[1] \o "\\\"" \o result.note[2]
                  \o "\\\"" \o result.note[3] \o "\""
             ELSE "")
         \o "}"

\* One element of toolResults.
ToolResult(toolUse) ==
    [type |-> "tool_result",
     tool_use_id |-> toolUse.id,
     content |-> JSONstringify(executeTool(toolUse.name, toolUse.input))]

-----------------------------------------------------------------------------
(* Helpers of the agent loop. *)

IsToolUse(block) == block.type = "tool_use"
IsText(block) == block.type = "text"

\* response.content.filter(block => block.type === 'tool_use')
toolUseBlocks(response) == SelectSeq(response.content, IsToolUse)

\* A variant that looks at the stop reason alone.
IsDispatchByStopReason(response) == response.stop_reason = "tool_use"

\* response.stop_reason === 'tool_use' && toolUseBlocks.length > 0
IsDispatch(response) ==
    response.stop_reason = "tool_use" /\ Len(toolUseBlocks(response)) > 0

\* toolUseBlocks.map(...): the results, where no tool throws.
toolResults(blocks) == [i \in 1..Len(blocks) |-> ToolResult(blocks[i])]

\* The index of the first block whose tool throws, 0 when none does.
FirstThrow(blocks) ==
    IF \E i \in 1..Len(blocks) : Throws(blocks[i].name, blocks[i].input)
    THEN CHOOSE i \in 1..Len(blocks) :
            /\ Throws(blocks[i].name, blocks[i].input)
            /\ \A j \in 1..(i - 1) : ~Throws(blocks[j].name, blocks[j].input)
    ELSE 0

\* const textContent = response.content.find(block => block.type === 'text');
\* textContent ? textContent.text : ''
responseText(response) ==
    LET texts == SelectSeq(response.content, IsText)
    IN  IF Len(texts) > 0 THEN texts[1].text ELSE ""

\* A variant that assigns where the code adds.
AddUsageOverwrites(total, usage) ==
    [input_tokens |-> usage.input_tokens,
     output_tokens |-> usage.output_tokens]

\* totalUsage.input_tokens += ...; totalUsage.output_tokens += ...
AddUsage(total, usage) ==
    [input_tokens |-> total.input_tokens + usage.input_tokens,
     output_tokens |-> total.output_tokens + usage.output_tokens]

\* A variant that tests for an absent message only.
MessageAbsent(m) == m = Undefined

\* A variant that deletes nothing.
DeletedNothing(sid) == messageHistory

\* !message
MessageMissing(m) == m \in {Undefined, ""}

\* const { message, session_id = 'default' } = req.body
SessionOf(body) ==
    IF body.session_id = Undefined THEN "default" ELSE body.session_id

\* messageHistory.has(sid)
Has(sid) == messageHistory[sid] # NoRef

NoRes == [status |-> 0]
ZeroUsage == Usage(0, 0)

-----------------------------------------------------------------------------
(* The budget of the model client. *)

\* The responses received so far, by all requests.
Received == {<<r, i>> \in Requests \X (1..maxIterations) : i <= Len(received[r])}

IsMixed(response) == Len(toolUseBlocks(response)) > 1

MixedReceived == {p \in Received : IsMixed(received[p[1]][p[2]])}
DispatchesReceived == {p \in Received : IsDispatch(received[p[1]][p[2]])}

MixedBudget(response) ==
    IsMixed(response) => Cardinality(MixedReceived) < MaxMixed

WithinBudget(response) ==
    /\ IsDispatch(response) => Cardinality(DispatchesReceived) < MaxDispatches
    /\ MixedBudget(response)

-----------------------------------------------------------------------------
(* The responses of POST /chat. *)

\* res.status(400).json({ error: 'Message is required' })
MessageRequired == [status |-> 400, error |-> "Message is required"]

\* res.json({ response, session_id, usage, iterations })
ChatReply(text, sid, usage, its) ==
    [status |-> 200, response |-> text, session_id |-> sid,
     usage |-> usage, iterations |-> its]

\* res.status(500).json({ error: 'Agent loop exceeded maximum iterations' })
IterationLimit ==
    [status |-> 500, error |-> "Agent loop exceeded maximum iterations"]

\* res.status(500).json({ error: 'Failed to get response from LLM' })
LLMFailure == [status |-> 500, error |-> "Failed to get response from LLM"]

\* The handler answers and ends.
Finish(r, response) ==
    /\ pc' = [pc EXCEPT ![r] = "done"]
    /\ res' = [res EXCEPT ![r] = response]
    /\ sent' = [sent EXCEPT ![r] = <<>>]

\* while (iterations < maxIterations)
LoopContinues(its) == its < maxIterations

\* A variant that issues the next call twice without awaiting the first.
LoopHeadCallsTwice(r, ref, its) ==
    IF LoopContinues(its)
    THEN /\ iterations' = [iterations EXCEPT ![r] = its + 1]
         /\ calls' = [calls EXCEPT ![r] = @ + 2]
         /\ pc' = [pc EXCEPT ![r] = "calling"]
         /\ sent' = [sent EXCEPT ![r] = arrays'[ref]]
         /\ UNCHANGED res
    ELSE /\ iterations' = [iterations EXCEPT ![r] = its]
         /\ UNCHANGED calls
         /\ Finish(r, IterationLimit)

\* The head of the loop: the next model call is issued with the array `ref`
\* as this step leaves it, or the loop is left and the iteration-limit
\* failure is reported.
LoopHead(r, ref, its) ==
    IF LoopContinues(its)
    THEN /\ iterations' = [iterations EXCEPT ![r] = its + 1]
         /\ calls' = [calls EXCEPT ![r] = @ + 1]
         /\ pc' = [pc EXCEPT ![r] = "calling"]
         /\ sent' = [sent EXCEPT ![r] = arrays'[ref]]
         /\ UNCHANGED res
    ELSE /\ iterations' = [iterations EXCEPT ![r] = its]
         /\ UNCHANGED calls
         /\ Finish(r, IterationLimit)

\* A variant that puts the turn in front of the array (messages.unshift).
PushFront(as, ref, turn) == [as EXCEPT ![ref] = <<turn>> \o @]

\* messages.push(turn), on the array `ref`
Push(as, ref, turn) == [as EXCEPT ![ref] = Append(@, turn)]

-----------------------------------------------------------------------------
(* The state after construction. *)

NoSync == [op |-> "none"]

Init ==
    /\ messageHistory = [s \in SessionIds |-> NoRef]
    /\ arrays = [r \in Requests |-> <<>>]
    /\ pc = [r \in Requests |-> "idle"]
    /\ message = [r \in Requests |-> Undefined]
    /\ session_id = [r \in Requests |-> Undefined]
    /\ messages = [r \in Requests |-> NoRef]
    /\ totalUsage = [r \in Requests |-> ZeroUsage]
    /\ iterations = [r \in Requests |-> 0]
    /\ res = [r \in Requests |-> NoRes]
    /\ sent = [r \in Requests |-> <<>>]
    /\ received = [r \in Requests |-> <<>>]
    /\ calls = [r \in Requests |-> 0]
    /\ toolRuns = [r \in Requests |-> 0]
    /\ failed = [r \in Requests |-> FALSE]
    /\ cleared = [r \in Requests |-> FALSE]
    /\ lastSync = NoSync

-----------------------------------------------------------------------------
(* POST /chat, up to the first model call. *)

\* A body without a message: 400, and nothing else.
PostInvalid(r, body) ==
    /\ pc[r] = "idle"
    /\ MessageMissing(body.message)
    /\ message' = [message EXCEPT ![r] = body.message]
    /\ Finish(r, MessageRequired)
    /\ lastSync' = NoSync
    /\ UNCHANGED cleared
    /\ UNCHANGED <<messageHistory, arrays, session_id, messages, totalUsage,
                   iterations, received, calls, toolRuns, failed>>

\* A variant that holds a POST back while another request of the same
\* session is in flight.
PostChatExclusive(r, body) ==
    LET sid == SessionOf(body)
        ref == IF Has(sid) THEN messageHistory[sid] ELSE r
    IN  /\ pc[r] = "idle"
        /\ ~MessageMissing(body.message)
        /\ \A q \in Requests \ {r} : pc[q] = "calling" => session_id[q] # sid
        /\ message' = [message EXCEPT ![r] = body.message]
        /\ messageHistory' = [messageHistory EXCEPT ![sid] = ref]
        /\ session_id' = [session_id EXCEPT ![r] = sid]
        /\ messages' = [messages EXCEPT ![r] = ref]
        /\ arrays' = Push(arrays, ref, TextTurn("user", body.message, r))
        /\ totalUsage' = [totalUsage EXCEPT ![r] = ZeroUsage]
        /\ LoopHead(r, ref, 0)
        /\ lastSync' = NoSync
        /\ UNCHANGED cleared
        /\ UNCHANGED <<received, toolRuns, failed>>

\* The session's array is fetched or created, the user turn is pushed and
\* the loop is entered. A new array is named after the request that made it.
PostChat(r, body) ==
    LET sid == SessionOf(body)
        ref == IF Has(sid) THEN messageHistory[sid] ELSE r
    IN  /\ pc[r] = "idle"
        /\ ~MessageMissing(body.message)
        /\ message' = [message EXCEPT ![r] = body.message]
        /\ messageHistory' = [messageHistory EXCEPT ![sid] = ref]
        /\ session_id' = [session_id EXCEPT ![r] = sid]
        /\ messages' = [messages EXCEPT ![r] = ref]
        /\ arrays' = Push(arrays, ref, TextTurn("user", body.message, r))
        /\ totalUsage' = [totalUsage EXCEPT ![r] = ZeroUsage]
        /\ LoopHead(r, ref, 0)
        /\ lastSync' = NoSync
        /\ UNCHANGED cleared
        /\ UNCHANGED <<received, toolRuns, failed>>

-----------------------------------------------------------------------------
(* The model call settles. *)

\* A variant that runs the tools and never pushes their results.
DispatchDropsResults(r, response) ==
    LET ref == messages[r]
        blocks == toolUseBlocks(response)
    IN  /\ arrays' = Push(arrays, ref,
                          BlockTurn("assistant", response.content, r))
        /\ toolRuns' = [toolRuns EXCEPT ![r] = @ + Len(blocks)]
        /\ LoopHead(r, ref, iterations[r])

\* A variant that pushes the tool results before the assistant turn.
DispatchResultsFirst(r, response) ==
    LET ref == messages[r]
        blocks == toolUseBlocks(response)
        thrown == FirstThrow(blocks)
        assistant == BlockTurn("assistant", response.content, r)
    IN  IF thrown # 0
        THEN /\ arrays' = arrays
             /\ toolRuns' = [toolRuns EXCEPT ![r] = @ + thrown]
             /\ Finish(r, LLMFailure)
             /\ UNCHANGED <<iterations, calls>>
        ELSE /\ arrays' = Push(Push(arrays, ref,
                                    BlockTurn("user", toolResults(blocks), r)),
                               ref, assistant)
             /\ toolRuns' = [toolRuns EXCEPT ![r] = @ + Len(blocks)]
             /\ LoopHead(r, ref, iterations[r])

\* The response is dispatched to the tools: the assistant turn is pushed,
\* every tool-use block is executed and the results are pushed as one user
\* turn. A tool that throws is caught by the handler's catch.
Dispatch(r, response) ==
    LET ref == messages[r]
        blocks == toolUseBlocks(response)
        thrown == FirstThrow(blocks)
        pushed == Push(arrays, ref, BlockTurn("assistant", response.content, r))
    IN  IF thrown # 0
        THEN /\ arrays' = pushed
             /\ toolRuns' = [toolRuns EXCEPT ![r] = @ + thrown]
             /\ Finish(r, LLMFailure)
             /\ UNCHANGED <<iterations, calls>>
        ELSE /\ arrays' = Push(pushed, ref,
                               BlockTurn("user", toolResults(blocks), r))
             /\ toolRuns' = [toolRuns EXCEPT ![r] = @ + Len(blocks)]
             /\ LoopHead(r, ref, iterations[r])

\* The response is final: the assistant turn is pushed and the reply sent.
Terminal(r, response, usage) ==
    /\ arrays' = Push(arrays, messages[r],
                      BlockTurn("assistant", response.content, r))
    /\ Finish(r, ChatReply(responseText(response), session_id[r], usage,
                           iterations[r]))
    /\ UNCHANGED <<iterations, calls, toolRuns>>

\* A variant that stores the array back under the session id after its
\* pushes (messageHistory.set(session_id, messages)).
ModelReturnResaves(r, response) ==
    LET usage == AddUsage(totalUsage[r], response.usage)
    IN  /\ pc[r] = "calling"
        /\ totalUsage' = [totalUsage EXCEPT ![r] = usage]
        /\ received' = [received EXCEPT ![r] = Append(@, response)]
        /\ IF IsDispatch(response)
           THEN Dispatch(r, response)
           ELSE Terminal(r, response, usage)
        /\ messageHistory' = [messageHistory EXCEPT ![session_id[r]] = messages[r]]
        /\ lastSync' = NoSync
        /\ UNCHANGED cleared
        /\ UNCHANGED <<message, session_id, messages, failed>>

ModelReturn(r, response) ==
    LET usage == AddUsage(totalUsage[r], response.usage)
    IN  /\ pc[r] = "calling"
        /\ totalUsage' = [totalUsage EXCEPT ![r] = usage]
        /\ received' = [received EXCEPT ![r] = Append(@, response)]
        /\ IF IsDispatch(response)
           THEN Dispatch(r, response)
           ELSE Terminal(r, response, usage)
        /\ lastSync' = NoSync
        /\ UNCHANGED cleared
        /\ UNCHANGED <<messageHistory, message, session_id, messages, failed>>

\* A variant that calls the model once more after its first rejection.
ModelFailRetriesOnce(r) ==
    /\ pc[r] = "calling"
    /\ failed' = [failed EXCEPT ![r] = TRUE]
    /\ IF failed[r]
       THEN Finish(r, LLMFailure) /\ UNCHANGED calls
       ELSE /\ calls' = [calls EXCEPT ![r] = @ + 1]
            /\ UNCHANGED <<pc, res, sent>>
    /\ lastSync' = NoSync
    /\ UNCHANGED cleared
    /\ UNCHANGED <<messageHistory, arrays, message, session_id, messages,
                   totalUsage, iterations, received, toolRuns>>

\* A variant whose catch takes the turns of the failed request back out.
ModelFailRollsBack(r) ==
    LET Kept(turn) == turn.by # r
    IN  /\ pc[r] = "calling"
        /\ failed' = [failed EXCEPT ![r] = TRUE]
        /\ arrays' = [arrays EXCEPT ![messages[r]] = SelectSeq(@, Kept)]
        /\ Finish(r, LLMFailure)
        /\ lastSync' = NoSync
        /\ UNCHANGED cleared
        /\ UNCHANGED <<messageHistory, message, session_id, messages,
                       totalUsage, iterations, received, calls, toolRuns>>

\* The model call is rejected: the catch answers, nothing is retried.
ModelFail(r) ==
    /\ pc[r] = "calling"
    /\ failed' = [failed EXCEPT ![r] = TRUE]
    /\ Finish(r, LLMFailure)
    /\ lastSync' = NoSync
    /\ UNCHANGED cleared
    /\ UNCHANGED <<messageHistory, arrays, message, session_id, messages,
                   totalUsage, iterations, received, calls, toolRuns>>

-----------------------------------------------------------------------------
(* DELETE /chat/:session_id and GET /chat/:session_id. *)

SessionNotFound(op, sid) ==
    [op |-> op, session_id |-> sid, status |-> 404,
     error |-> "Session not found"]

DeleteResponse(sid) ==
    IF Has(sid)
    THEN [op |-> "DELETE", session_id |-> sid, status |-> 200,
          message |-> "Session " \o sid \o " cleared"]
    ELSE SessionNotFound("DELETE", sid)

GetResponse(sid) ==
    IF Has(sid)
    THEN [op |-> "GET", session_id |-> sid, status |-> 200,
          messages |-> arrays[messageHistory[sid]]]
    ELSE SessionNotFound("GET", sid)

\* A variant that empties the whole map (messageHistory.clear()).
DeletedEverything(sid) ==
    IF Has(sid) THEN [s \in SessionIds |-> NoRef] ELSE messageHistory

\* messageHistory.delete(sid), when it has sid
Deleted(sid) ==
    IF Has(sid) THEN [messageHistory EXCEPT ![sid] = NoRef] ELSE messageHistory

DeleteSession(sid) ==
    /\ lastSync' = DeleteResponse(sid)
    /\ messageHistory' = Deleted(sid)
    /\ cleared' = [r \in Requests |->
                       \/ cleared[r]
                       \/ pc[r] = "calling" /\ session_id[r] = sid /\ Has(sid)]
    /\ UNCHANGED <<arrays, pc, message, session_id, messages, totalUsage,
                   iterations, res, sent, received, calls, toolRuns, failed>>

GetSession(sid) ==
    /\ lastSync' = GetResponse(sid)
    /\ UNCHANGED <<messageHistory, arrays, pc, message, session_id, messages,
                   totalUsage, iterations, res, sent, received, calls,
                   toolRuns, failed, cleared>>

-----------------------------------------------------------------------------

Next ==
    \/ \E r \in Requests, body \in Bodies : PostInvalid(r, body)
    \/ \E r \in Requests, body \in Bodies : PostChat(r, body)
    \/ \E r \in Requests, response \in Responses :
            WithinBudget(response) /\ ModelReturn(r, response)
    \/ \E r \in Requests : ModelFail(r)
    \/ \E sid \in SessionIds : DeleteSession(sid)
    \/ \E sid \in SessionIds : GetSession(sid)

\* Requests that run concurrently, under a model client that dispatches to
\* the tools at most MaxDispatches times.
Spec == Init /\ [][Next]_vars

\* One request, under a model client that may dispatch to the tools on every
\* call, so that the loop runs up to its iteration limit.
LoopNext ==
    \/ \E body \in Bodies : PostInvalid("r1", body)
    \/ \E body \in Bodies : PostChat("r1", body)
    \/ \E response \in Responses :
            MixedBudget(response) /\ ModelReturn("r1", response)
    \/ ModelFail("r1")
    \/ \E sid \in SessionIds : DeleteSession(sid)
    \/ \E sid \in SessionIds : GetSession(sid)

LoopSpec == Init /\ [][LoopNext]_vars

-----------------------------------------------------------------------------
(* Vocabulary of the properties. *)

Transcript(sid) == arrays[messageHistory[sid]]

\* The last element of a non-empty sequence.
Last(q) == q[Len(q)]

\* The turns of a transcript that request r pushed.
TurnsBy(t, r) == {i \in 1..Len(t) : t[i].by = r}

HasToolUse(turn) ==
    turn.kind = "blocks"
    /\ \E i \in 1..Len(turn.blocks) : turn.blocks[i].type = "tool_use"

ToolUseIds(turn) ==
    {b.id : b \in {turn.blocks[i] : i \in {j \in 1..Len(turn.blocks) :
                                              turn.blocks[j].type = "tool_use"}}}

\* `next` holds exactly one tool result for every tool-use id of `turn`.
Answers(next, turn) ==
    /\ next.kind = "blocks"
    /\ \A id \in ToolUseIds(turn) :
          Cardinality({j \in 1..Len(next.blocks) :
                          /\ next.blocks[j].type = "tool_result"
                          /\ next.blocks[j].tool_use_id = id}) = 1

\* Every turn of t with tool-use blocks is followed at once by its results.
AllAnswered(t) ==
    \A i \in 1..Len(t) :
        HasToolUse(t[i]) => i < Len(t) /\ Answers(t[i + 1], t[i])

\* The condition of line 112, written out.
AsksForTools(response) ==
    /\ response.stop_reason = "tool_use"
    /\ \E i \in 1..Len(response.content) : response.content[i].type = "tool_use"

-----------------------------------------------------------------------------
(* C1 *)

\* C1: in every transcript of a session, each turn with tool-use blocks is
\* immediately followed by a turn with exactly one tool result per tool-use
\* id, and no model call is issued with a transcript in which such a turn is
\* unanswered.
C1_ToolUseAlwaysAnswered ==
    /\ \A sid \in SessionIds : Has(sid) => AllAnswered(Transcript(sid))
    /\ \A r \in Requests : pc[r] = "calling" => AllAnswered(sent[r])

-----------------------------------------------------------------------------
(* C2 *)

\* The invocation got a response to every model call it made, and each one
\* had stop_reason tool_use and a tool-use block.
OnlyToolUseResponses(r) ==
    /\ pc[r] # "idle"
    /\ message[r] = "hi"
    /\ ~failed[r]
    /\ \A i \in 1..Len(received[r]) : AsksForTools(received[r][i])

\* The transcript of r is its user turn followed by n pairs of an assistant
\* turn with tool-use blocks and a user turn with their results.
UserTurnAndPairs(r, n) ==
    LET t == arrays[messages[r]]
    IN  /\ Len(t) = 1 + 2 * n
        /\ t[1].role = "user" /\ t[1].kind = "text"
        /\ \A i \in 1..n :
              /\ t[2 * i].role = "assistant" /\ HasToolUse(t[2 * i])
              /\ t[2 * i + 1].role = "user"
              /\ Answers(t[2 * i + 1], t[2 * i])

\* C2: when every model response of an invocation has stop_reason tool_use
\* and a tool-use block, the invocation ends with the iteration-limit error
\* exactly after maxIterations model calls, never earlier and never after one
\* more call, and then holds the user turn and maxIterations pairs.
C2_AlwaysToolUseHitsLimit ==
    \A r \in Requests :
        OnlyToolUseResponses(r) =>
            /\ calls[r] <= maxIterations
            /\ pc[r] = "done" =>
                  /\ res[r] = IterationLimit
                  /\ calls[r] = maxIterations
                  /\ Len(received[r]) = maxIterations
                  /\ UserTurnAndPairs(r, maxIterations)

-----------------------------------------------------------------------------
(* C3 *)

\* C3: a finished request has exactly one of the four outcomes, after at
\* most maxIterations model calls; the counter counts the model calls; and
\* the outcome is the iteration-limit failure if and only if each of the
\* first maxIterations responses was a tool-use dispatch.
C3_OutcomesAndLimit ==
    \A r \in Requests :
        /\ iterations[r] = calls[r]
        /\ calls[r] <= maxIterations
        /\ pc[r] = "done" =>
              /\ res[r] \in {MessageRequired, IterationLimit, LLMFailure}
                 \/ res[r].status = 200
              /\ res[r] = IterationLimit <=>
                    /\ Len(received[r]) = maxIterations
                    /\ \A i \in 1..maxIterations : AsksForTools(received[r][i])
              /\ res[r].status = 200 => res[r].iterations = Len(received[r])

-----------------------------------------------------------------------------
(* C4 *)

\* C4: tool execution never raises and never becomes a request-level error:
\* every tool-use block of a response that asks for tools gets its tool
\* result appended, and a request ends in 500 'Failed to get response from
\* LLM' only when a model call failed.
C4_ToolsNeverFailRequest ==
    \A r \in Requests :
        /\ res[r] = LLMFailure => failed[r]
        /\ \A i \in 1..Len(received[r]) :
              AsksForTools(received[r][i]) =>
                  \E j \in TurnsBy(arrays[messages[r]], r) :
                      LET t == arrays[messages[r]]
                      IN  /\ j < Len(t)
                          /\ t[j].blocks = received[r][i].content
                          /\ t[j + 1].by = r
                          /\ Answers(t[j + 1], t[j])

-----------------------------------------------------------------------------
(* C5 *)

\* The step in which request r leaves its loop because the counter reached
\* the limit: its last permitted response was dispatched and the results
\* were pushed.
LimitHit(r) ==
    /\ pc[r] = "calling" /\ pc'[r] = "done"
    /\ iterations[r] = maxIterations
    /\ toolRuns'[r] > toolRuns[r]
    /\ Len(arrays'[messages[r]]) = Len(arrays[messages[r]]) + 2

\* C5: a failed model call is never retried: the step in which a model call
\* fails ends the request with 500 'Failed to get response from LLM', after
\* it the invocation calls no model and runs no tool, and the two 500 errors
\* are never confused: a failed call never reports the iteration limit and a
\* loop that hits its limit reports it.
C5_NoRetry ==
    [][\A r \in Requests :
          /\ (failed'[r] /\ ~failed[r]) =>
                /\ pc'[r] = "done"
                /\ res'[r] = LLMFailure
                /\ calls'[r] = calls[r]
                /\ toolRuns'[r] = toolRuns[r]
                /\ received'[r] = received[r]
          /\ failed[r] =>
                /\ pc'[r] = "done"
                /\ res'[r] = res[r]
                /\ calls'[r] = calls[r]
                /\ toolRuns'[r] = toolRuns[r]
                /\ received'[r] = received[r]
          /\ failed'[r] => res'[r] # IterationLimit
          /\ LimitHit(r) => res'[r] = IterationLimit /\ ~failed'[r]
      ]_vars

\* A model call fails after two dispatches: the request is over, with the
\* upstream error, having made three calls.
C5_Witness ==
    \E r \in Requests :
        /\ failed[r] /\ res[r] = LLMFailure
        /\ calls[r] = 3 /\ toolRuns[r] >= 2

-----------------------------------------------------------------------------
(* C6 *)

\* The text of the first text block of a content, "" when it has none.
FirstTextOf(content) ==
    LET texts == {i \in 1..Len(content) : content[i].type = "text"}
    IN  IF texts = {} THEN ""
        ELSE content[CHOOSE i \in texts : \A j \in texts : i <= j].text

\* C6: a response is dispatched to the tools only if its stop_reason is
\* tool_use and it has a tool-use block; any other response is final: one
\* assistant turn with the full content is appended, no tool runs, and the
\* request returns 200 with the text of the first text block, or "".
C6_DispatchOnlyForToolUse ==
    [][\A r \in Requests :
          Len(received'[r]) = Len(received[r]) + 1 =>
              LET response == Last(received'[r])
                  ref == messages[r]
              IN  /\ (toolRuns'[r] > toolRuns[r] \/ pc'[r] = "calling")
                        => AsksForTools(response)
                  /\ ~AsksForTools(response) =>
                        /\ arrays'[ref] =
                              Append(arrays[ref],
                                     [role |-> "assistant", kind |-> "blocks",
                                      text |-> "", blocks |-> response.content,
                                      by |-> r])
                        /\ toolRuns'[r] = toolRuns[r]
                        /\ calls'[r] = calls[r]
                        /\ pc'[r] = "done"
                        /\ res'[r].status = 200
                        /\ res'[r].response = FirstTextOf(response.content)
      ]_vars

\* A response with stop_reason tool_use and no tool-use block, and a response
\* without any text, each ended a request with 200.
C6_Witness ==
    \E r, q \in Requests :
        /\ pc[r] = "done" /\ Len(received[r]) = 1
        /\ Last(received[r]) = RespToolUseNoBlock
        /\ res[r].status = 200 /\ res[r].response = "thinking"
        /\ pc[q] = "done" /\ Len(received[q]) = 2
        /\ Last(received[q]) = RespNoText
        /\ res[q].status = 200 /\ res[q].response = ""

-----------------------------------------------------------------------------
(* C7 *)

RECURSIVE SumTokens(_, _)
\* The sum of one usage counter over a sequence of responses.
SumTokens(q, counter) ==
    IF q = <<>> THEN 0 ELSE q[1].usage[counter] + SumTokens(Tail(q), counter)

SumUsage(q) ==
    [input_tokens |-> SumTokens(q, "input_tokens"),
     output_tokens |-> SumTokens(q, "output_tokens")]

\* C7: within one invocation the running usage starts at zero, never
\* decreases, and after each model call is the component-wise sum of the
\* usage of the responses this invocation has received; the usage returned
\* on success is that sum, with nothing of any other request in it.
C7_UsageIsOwnSum ==
    [][\A r \in Requests :
          /\ totalUsage'[r].input_tokens >= totalUsage[r].input_tokens
          /\ totalUsage'[r].output_tokens >= totalUsage[r].output_tokens
          /\ received'[r] = <<>> => totalUsage'[r] = [input_tokens |-> 0,
                                                      output_tokens |-> 0]
          /\ totalUsage'[r] = SumUsage(received'[r])
          /\ res'[r].status = 200 => res'[r].usage = SumUsage(received'[r])
      ]_vars

\* Two requests interleaved on one session, one answered after two model
\* calls and the other, in between, after one: each reports its own total.
C7_Witness ==
    \E r, q \in Requests :
        /\ r # q /\ messages[r] = messages[q] /\ messages[r] # NoRef
        /\ res[r].status = 200 /\ received[r] = <<RespTime, RespHello>>
        /\ res[r].usage = [input_tokens |-> 32, output_tokens |-> 13]
        /\ res[q].status = 200 /\ received[q] = <<RespNoText>>
        /\ res[q].usage = [input_tokens |-> 7, output_tokens |-> 0]
        /\ LET t == arrays[messages[r]]
           IN  \E i, j, k \in 1..Len(t) :
                   /\ i < j /\ j < k
                   /\ t[i].by = r /\ t[j].by = q /\ t[k].by = r

-----------------------------------------------------------------------------
(* C8 *)

\* No turn of the transcript of r comes from another request, and r made it.
SoleUser(r) ==
    /\ messages[r] = r
    /\ \A i \in 1..Len(arrays[r]) : arrays[r][i].by = r

\* C8: a request answered after k tool-use dispatches and one final response
\* has added 2k + 2 turns (its user turn, k pairs of an assistant turn and a
\* result turn, the final assistant turn) and reports iterations = k + 1;
\* where no other request touched the session these are the whole
\* transcript; with k = 0 the usage is that of the one response.
C8_TurnsAndIterations ==
    \A r \in Requests :
        res[r].status = 200 =>
            LET k == Len(received[r]) - 1
                t == arrays[messages[r]]
            IN  /\ k >= 0 /\ k < maxIterations
                /\ \A i \in 1..k : AsksForTools(received[r][i])
                /\ ~AsksForTools(received[r][k + 1])
                /\ Cardinality(TurnsBy(t, r)) = 2 * k + 2
                /\ res[r].iterations = k + 1
                /\ k = 0 => res[r].usage = received[r][1].usage
                /\ SoleUser(r) =>
                      /\ Len(t) = 2 * k + 2
                      /\ t[1].role = "user" /\ t[1].text = message[r]
                      /\ \A i \in 1..k :
                            /\ t[2 * i].role = "assistant"
                            /\ t[2 * i].blocks = received[r][i].content
                            /\ t[2 * i + 1].role = "user"
                            /\ Answers(t[2 * i + 1], t[2 * i])
                      /\ t[2 * k + 2].role = "assistant"
                      /\ t[2 * k + 2].blocks = received[r][k + 1].content

\* A request answered on its last permitted call, after maxIterations - 1
\* dispatches, the first of them the tool call of the four-turn example.
C8_Witness ==
    \E r \in Requests :
        /\ res[r].status = 200 /\ SoleUser(r)
        /\ Len(received[r]) = maxIterations
        /\ received[r][1] = RespTime
        /\ Last(received[r]) = RespHello
        /\ Len(arrays[r]) = 2 * maxIterations
        /\ res[r].iterations = maxIterations

-----------------------------------------------------------------------------
(* C9 *)

\* C9: a POST /chat whose message is missing is answered with 400 'Message
\* is required' and has no other effect: no session is created, no turn is
\* pushed on any array and no model call is made, then or later.
C9_MissingMessageNoEffect ==
    [][\A r \in Requests :
          /\ (pc[r] = "idle" /\ pc'[r] # "idle"
                /\ message'[r] \in {Undefined, ""}) =>
                /\ pc'[r] = "done"
                /\ res'[r] = [status |-> 400, error |-> "Message is required"]
                /\ messageHistory' = messageHistory
                /\ arrays' = arrays
                /\ calls' = calls
                /\ messages'[r] = NoRef
          /\ (pc[r] = "done" /\ res[r].status = 400) =>
                /\ pc'[r] = "done" /\ res'[r] = res[r]
                /\ calls'[r] = 0
                /\ \A a \in Requests : TurnsBy(arrays'[a], r) = {}
      ]_vars

\* A request with an empty message was refused while another request's
\* session exists; its own session id was never created.
C9_Witness ==
    \E r \in Requests :
        /\ res[r] = MessageRequired /\ message[r] = ""
        /\ \E sid \in SessionIds : Has(sid)
        /\ \E sid \in SessionIds : ~Has(sid)

-----------------------------------------------------------------------------
(* C10 *)

\* C10: DELETE of an absent session id yields 404 'Session not found' and
\* changes nothing; DELETE of an existing one yields 200 and removes it; a
\* GET or DELETE of an absent id yields 404; and an absent id stays absent
\* until a POST /chat with a message for that id creates it.
C10_DeleteThenNotFound ==
    [][\A sid \in SessionIds :
          /\ (lastSync'.op = "DELETE" /\ lastSync'.session_id = sid) =>
                IF messageHistory[sid] = NoRef
                THEN /\ lastSync'.status = 404
                     /\ lastSync'.error = "Session not found"
                     /\ messageHistory' = messageHistory
                     /\ UNCHANGED <<arrays, pc, res, calls>>
                ELSE /\ lastSync'.status = 200
                     /\ messageHistory'[sid] = NoRef
          /\ (lastSync'.op = "GET" /\ lastSync'.session_id = sid
                /\ messageHistory[sid] = NoRef) =>
                /\ lastSync'.status = 404
                /\ lastSync'.error = "Session not found"
          /\ (messageHistory[sid] = NoRef /\ messageHistory'[sid] # NoRef) =>
                \E r \in Requests :
                    /\ pc[r] = "idle" /\ pc'[r] = "calling"
                    /\ session_id'[r] = sid
                    /\ message'[r] \notin {Undefined, ""}
      ]_vars

\* A session that a request had created was deleted, and a further DELETE
\* of it was answered 404.
C10_Witness ==
    /\ lastSync.op = "DELETE" /\ lastSync.status = 404
    /\ \E r \in Requests :
          /\ session_id[r] = lastSync.session_id
          /\ Len(arrays[r]) > 0
          /\ ~Has(session_id[r])

-----------------------------------------------------------------------------
(* C11 *)

\* s is an initial part of t.
IsPrefix(s, t) == Len(s) <= Len(t) /\ SubSeq(t, 1, Len(s)) = s

\* C11: a transcript only grows at its end. In every step that does not
\* delete the session the stored turns stay, in their order, as the initial
\* part of the transcript after the step, and a GET of the session answers
\* 200 with exactly the stored turns in their stored order.
C11_AppendOnly ==
    [][ /\ \A sid \in SessionIds :
              (Has(sid) /\ messageHistory'[sid] # NoRef) =>
                  /\ messageHistory'[sid] = messageHistory[sid]
                  /\ IsPrefix(Transcript(sid), arrays'[messageHistory'[sid]])
        /\ \A sid \in SessionIds :
              (lastSync'.op = "GET" /\ lastSync'.session_id = sid /\ Has(sid)) =>
                  /\ lastSync'.status = 200
                  /\ lastSync'.messages = Transcript(sid)
                  /\ IsPrefix(lastSync'.messages, arrays'[messageHistory'[sid]])
      ]_vars

\* A GET returned the turns of two requests on one session, r's first user
\* turn, then q's, then a later turn of r, in the order they were pushed.
C11_Witness ==
    /\ lastSync.op = "GET" /\ lastSync.status = 200
    /\ \E r, q \in Requests :
          /\ r # q
          /\ Len(lastSync.messages) >= 4
          /\ lastSync.messages[1] = TextTurn("user", "hi", r)
          /\ lastSync.messages[2] = TextTurn("user", "hi", q)
          /\ lastSync.messages[3].by = r /\ lastSync.messages[3].role = "assistant"
          /\ lastSync.messages[4].by = r /\ lastSync.messages[4].role = "user"
          /\ lastSync.messages = Transcript(lastSync.session_id)

-----------------------------------------------------------------------------
(* C12 *)

\* The turns that request r pushed, in the order of its array.
OwnTurns(r) ==
    LET Mine(turn) == turn.by = r
    IN  IF messages[r] = NoRef THEN <<>> ELSE SelectSeq(arrays[messages[r]], Mine)

\* The tool-use blocks of a response content, in the order received.
ToolUsesOf(content) ==
    LET IsUse(block) == block.type = "tool_use"
    IN  SelectSeq(content, IsUse)

RECURSIVE ToolUsesAsked(_)
\* The number of tool-use blocks in the responses of q that ask for tools.
ToolUsesAsked(q) ==
    IF q = <<>> THEN 0
    ELSE ToolUsesAsked(Tail(q))
         + (IF AsksForTools(Head(q)) THEN Len(ToolUsesOf(Head(q).content)) ELSE 0)

\* C12: for every response that asks for tools, each of its tool-use blocks
\* was executed exactly once, and the request pushed, right after the
\* assistant turn, one user turn with as many tool results as the response
\* has tool-use blocks, the i-th result carrying the id of the i-th tool-use
\* block (text blocks produce no result).
C12_ResultsMatchToolUses ==
    \A r \in Requests :
        /\ toolRuns[r] = ToolUsesAsked(received[r])
        /\ \A i \in 1..Len(received[r]) :
              AsksForTools(received[r][i]) =>
                  LET uses == ToolUsesOf(received[r][i].content)
                      own == OwnTurns(r)
                  IN  /\ Len(own) >= 2 * i + 1
                      /\ own[2 * i] =
                            BlockTurn("assistant", received[r][i].content, r)
                      /\ own[2 * i + 1].role = "user"
                      /\ own[2 * i + 1].kind = "blocks"
                      /\ Len(own[2 * i + 1].blocks) = Len(uses)
                      /\ \A n \in 1..Len(uses) :
                            /\ own[2 * i + 1].blocks[n].type = "tool_result"
                            /\ own[2 * i + 1].blocks[n].tool_use_id = uses[n].id

-----------------------------------------------------------------------------
(* C13 *)

\* The names the switch of executeTool has a case for.
RegisteredTools == {"get_current_time"}

\* The serialized error payload for a tool name without a case.
UnknownToolPayload(name) == "{\"error\":\"Unknown tool: " \o name \o "\"}"

\* C13: when a response that asks for tools has a tool-use block whose name
\* is not registered, the request pushes a result turn in which the result
\* with that block's id has the content {"error":"Unknown tool: <name>"},
\* nothing is thrown and the loop goes on: below the iteration limit the
\* next model call is made, with a transcript that holds this result turn,
\* and at the limit the request ends with the iteration-limit error.
C13_UnknownToolIsReported ==
    \A r \in Requests : \A i \in 1..Len(received[r]) :
        LET response == received[r][i]
            own == OwnTurns(r)
        IN  \A n \in 1..Len(response.content) :
                LET block == response.content[n]
                IN  ( /\ AsksForTools(response)
                      /\ block.type = "tool_use"
                      /\ block.name \notin RegisteredTools ) =>
                        /\ Len(own) >= 2 * i + 1
                        /\ own[2 * i + 1].role = "user"
                        /\ own[2 * i + 1].kind = "blocks"
                        /\ \E k \in 1..Len(own[2 * i + 1].blocks) :
                              own[2 * i + 1].blocks[k] =
                                  [type |-> "tool_result",
                                   tool_use_id |-> block.id,
                                   content |-> UnknownToolPayload(block.name)]
                        /\ IF i < maxIterations
                           THEN /\ calls[r] > i
                                /\ (pc[r] = "calling" /\ i = Len(received[r])) =>
                                       /\ Len(sent[r]) > 0
                                       /\ Last(sent[r]) = own[2 * i + 1]
                           ELSE res[r] = IterationLimit

-----------------------------------------------------------------------------
(* C14 *)

\* The turns request r pushed are its user turn followed by n pairs of an
\* assistant turn with tool-use blocks and a user turn with their results.
OwnUserTurnAndPairs(r, n) ==
    LET own == OwnTurns(r)
    IN  /\ Len(own) = 1 + 2 * n
        /\ own[1] = TextTurn("user", message[r], r)
        /\ \A i \in 1..n :
              /\ own[2 * i].role = "assistant" /\ HasToolUse(own[2 * i])
              /\ own[2 * i + 1].role = "user"
              /\ Answers(own[2 * i + 1], own[2 * i])

\* C14: a request that ends with 500 takes nothing back. The step that ends
\* it leaves the session map as it was and every array with its old turns in
\* front; after the iteration-limit error the request's turns are its user
\* turn and maxIterations pairs, after a rejected k-th model call its user
\* turn and k-1 pairs; and a GET of its session, unless the session was
\* deleted, answers 200 with a transcript that holds all of these turns.
C14_FailureKeepsTranscript ==
    [][ \A r \in Requests :
          /\ (pc[r] = "calling" /\ pc'[r] = "done" /\ res'[r].status = 500) =>
                /\ messageHistory' = messageHistory
                /\ \A a \in Requests : IsPrefix(arrays[a], arrays'[a])
          /\ (pc'[r] = "done" /\ res'[r] = IterationLimit) =>
                OwnUserTurnAndPairs(r, maxIterations)'
          /\ (pc'[r] = "done" /\ failed'[r]) =>
                /\ calls'[r] >= 1
                /\ OwnUserTurnAndPairs(r, calls[r] - 1)'
          /\ ( /\ pc'[r] = "done" /\ res'[r].status = 500
               /\ lastSync'.op = "GET"
               /\ lastSync'.session_id = session_id'[r]
               /\ messageHistory'[session_id'[r]] = messages'[r] ) =>
                /\ lastSync'.status = 200
                /\ lastSync'.messages = arrays'[messages'[r]]
                /\ TextTurn("user", message'[r], r) \in
                       {lastSync'.messages[i] : i \in 1..Len(lastSync'.messages)}
      ]_vars

\* The only request of its session ran into the iteration limit, and a GET
\* then returned its user turn and its maxIterations pairs.
C14_Witness ==
    \E r \in Requests :
        /\ res[r] = IterationLimit
        /\ lastSync.op = "GET" /\ lastSync.status = 200
        /\ lastSync.session_id = session_id[r]
        /\ lastSync.messages = OwnTurns(r)
        /\ Len(lastSync.messages) = 1 + 2 * maxIterations

-----------------------------------------------------------------------------
(* C15 *)

\* The model calls of r that were issued and have not settled yet.
Outstanding(r) ==
    calls[r] - Len(received[r]) - (IF failed[r] THEN 1 ELSE 0)

\* C15: an invocation has at most one model call outstanding, exactly while
\* it waits for the model; and a step that issues its (i+1)-th call issues
\* one call only, with the i-th response received and with the assistant
\* turn of that response and its tool-result turn pushed, these two being
\* the request's last turns and the last turns of the transcript passed.
C15_CallsSequential ==
    [][ \A r \in Requests :
          /\ Outstanding(r)' \in {0, 1}
          /\ (Outstanding(r)' = 1) <=> (pc'[r] = "calling")
          /\ calls'[r] # calls[r] =>
                LET i == calls[r]
                    own == OwnTurns(r)'
                    t == sent'[r]
                IN  /\ calls'[r] = i + 1
                    /\ Outstanding(r) = (IF i = 0 THEN 0 ELSE 1)
                    /\ Len(received'[r]) = i
                    /\ Len(own) = 1 + 2 * i
                    /\ t = arrays'[messages'[r]]
                    /\ i > 0 =>
                          /\ own[2 * i] =
                                BlockTurn("assistant", received'[r][i].content, r)
                          /\ own[2 * i + 1].role = "user"
                          /\ Answers(own[2 * i + 1], own[2 * i])
                          /\ Len(t) >= 2
                          /\ t[Len(t) - 1] = own[2 * i]
                          /\ t[Len(t)] = own[2 * i + 1]
      ]_vars

\* The tenth call of an invocation is outstanding, nine responses and their
\* nine pairs of turns behind it.
C15_Witness ==
    \E r \in Requests :
        /\ pc[r] = "calling"
        /\ calls[r] = maxIterations
        /\ Len(received[r]) = maxIterations - 1
        /\ Len(sent[r]) = 2 * maxIterations - 1
        /\ Last(sent[r]).role = "user" /\ Last(sent[r]).kind = "blocks"

-----------------------------------------------------------------------------
(* C16 *)

\* C16: nothing excludes two requests of one session from each other. While
\* a request waits for the model, a POST of any other request for the same
\* session id can go ahead, and any waiting request can take its model
\* response whatever the other one is doing.
C16_NoMutualExclusion ==
    \A r \in Requests :
        pc[r] = "calling" =>
            /\ ENABLED ModelReturn(r, RespHello)
            /\ \A q \in Requests :
                  pc[q] = "idle" =>
                      ENABLED PostChat(q, [message |-> "hi",
                                           session_id |-> session_id[r]])

\* In one session the user turn of q lies between the user turn of r and the
\* assistant reply of r, and the model call of q that is outstanding was
\* made with a transcript that holds a turn pushed by r.
C16_Witness ==
    \E r, q \in Requests :
        /\ r # q
        /\ res[r].status = 200 /\ pc[q] = "calling"
        /\ session_id[r] = session_id[q]
        /\ messageHistory[session_id[r]] = messages[r]
        /\ messages[q] = messages[r]
        /\ LET t == arrays[messages[r]]
           IN  \E i, j, k \in 1..Len(t) :
                  /\ i < j /\ j < k
                  /\ t[i] = TextTurn("user", "hi", r)
                  /\ t[j] = TextTurn("user", "hi", q)
                  /\ t[k].by = r /\ t[k].role = "assistant"
                  /\ t[k] = Last(OwnTurns(r))
        /\ \E n \in 1..Len(sent[q]) : sent[q][n].by = r

-----------------------------------------------------------------------------
(* C17 *)

\* The place, in the array of request r, of the n-th turn that r pushed.
OwnIndex(r, n) ==
    LET own == TurnsBy(arrays[messages[r]], r)
    IN  CHOOSE j \in own : Cardinality({k \in own : k <= j}) = n

\* C17: for every response that a request dispatched to the tools, the
\* assistant turn with its tool-use blocks is directly followed, in the
\* array, by the user turn of the same request with their results: the two
\* are neighbours and no turn of another request stands between them.
C17_DispatchPairAdjacent ==
    \A r \in Requests : \A i \in 1..Len(received[r]) :
        AsksForTools(received[r][i]) =>
            LET t == arrays[messages[r]]
            IN  /\ Cardinality(TurnsBy(t, r)) >= 2 * i
                /\ LET j == OwnIndex(r, 2 * i)
                   IN  /\ t[j] = BlockTurn("assistant", received[r][i].content, r)
                       /\ j < Len(t)
                       /\ t[j + 1].by = r
                       /\ t[j + 1].role = "user"
                       /\ Answers(t[j + 1], t[j])

-----------------------------------------------------------------------------
(* C18 *)

\* C18: the transcript passed to a model call is never empty and ends with a
\* user turn: the user turn of the request or a turn of tool results. No
\* model call is outstanding with a transcript that ends in an assistant turn.
C18_CallEndsWithUserTurn ==
    \A r \in Requests :
        pc[r] = "calling" =>
            /\ Len(sent[r]) > 0
            /\ Last(sent[r]).role = "user"
            /\ Last(sent[r]).by = r
            /\ \/ Last(sent[r]) = TextTurn("user", message[r], r)
               \/ /\ Last(sent[r]).kind = "blocks"
                  /\ \A n \in 1..Len(Last(sent[r]).blocks) :
                        Last(sent[r]).blocks[n].type = "tool_result"

\* A model call is outstanding whose transcript holds the assistant reply of
\* another request of the session and, after it, ends with the tool results
\* of the calling request.
C18_Witness ==
    \E r, q \in Requests :
        /\ r # q
        /\ pc[r] = "calling"
        /\ Len(sent[r]) >= 5
        /\ sent[r][Len(sent[r]) - 2].by = q
        /\ sent[r][Len(sent[r]) - 2].role = "assistant"
        /\ sent[r][Len(sent[r]) - 1].role = "assistant"
        /\ Last(sent[r]).role = "user" /\ Last(sent[r]).kind = "blocks"

-----------------------------------------------------------------------------
(* C19 *)

\* C19: a session that was deleted while a POST for it was in flight is not
\* brought back by that POST. A session id comes into the map only by the
\* first step of a new POST, with a fresh array; the array of a request
\* whose session was deleted under it is never again the array of a session,
\* so none of its turns shows in a stored transcript; and a GET of its
\* session id answers 404, or, after a later POST made the session anew, 200
\* with a transcript without any turn of that request.
C19_NoResurrection ==
    [][ /\ \A sid \in SessionIds :
              (~Has(sid) /\ messageHistory'[sid] # NoRef) =>
                  \E q \in Requests :
                      /\ pc[q] = "idle" /\ pc'[q] = "calling"
                      /\ session_id'[q] = sid
                      /\ messageHistory'[sid] = q
                      /\ arrays'[q] = <<TextTurn("user", message'[q], q)>>
        /\ \A r \in Requests :
              cleared'[r] =>
                  /\ \A sid \in SessionIds :
                        /\ messageHistory'[sid] # messages'[r]
                        /\ messageHistory'[sid] # NoRef =>
                              TurnsBy(arrays'[messageHistory'[sid]], r) = {}
                  /\ ( /\ lastSync'.op = "GET"
                       /\ lastSync'.session_id = session_id'[r] ) =>
                        IF messageHistory'[session_id'[r]] = NoRef
                        THEN lastSync'.status = 404
                        ELSE /\ lastSync'.status = 200
                             /\ TurnsBy(lastSync'.messages, r) = {}
      ]_vars

\* The session of a request was deleted while it waited for the model; the
\* request then went through a tool dispatch and ended with 200, and a GET
\* of its session id after that was answered 404.
C19_Witness ==
    \E r \in Requests :
        /\ cleared[r]
        /\ res[r].status = 200
        /\ Len(OwnTurns(r)) = 4
        /\ ~Has(session_id[r])
        /\ lastSync = SessionNotFound("GET", session_id[r])

-----------------------------------------------------------------------------
(* C20 *)

\* The step is a request on session sid: a DELETE of sid, or a stretch of a
\* POST /chat whose session id is sid. (A GET changes no session at all.)
StepOn(sid) ==
    \/ lastSync'.op = "DELETE" /\ lastSync'.session_id = sid
    \/ \E r \in Requests :
          /\ session_id'[r] = sid
          /\ pc'[r] # pc[r] \/ received'[r] # received[r]

\* C20: a step changes whether a session exists, or what its transcript
\* holds, only if it is a step of a request on that very session id; every
\* POST, GET or DELETE on another id leaves the session as it was.
C20_SessionsIsolated ==
    [][ \A sid \in SessionIds :
          ( \/ messageHistory'[sid] # messageHistory[sid]
            \/ /\ Has(sid)
               /\ arrays'[messageHistory[sid]] # arrays[messageHistory[sid]] ) =>
              /\ StepOn(sid)
              /\ \A other \in SessionIds \ {sid} :
                    /\ messageHistory'[other] = messageHistory[other]
                    /\ Has(other) =>
                          arrays'[messageHistory[other]] =
                              arrays[messageHistory[other]]
      ]_vars

\* One session was just deleted under a request that waits for the model,
\* and the other session still holds the two turns of a finished request.
C20_Witness ==
    \E r, q \in Requests : \E sid, other \in SessionIds :
        /\ r # q /\ sid # other
        /\ lastSync.op = "DELETE" /\ lastSync.status = 200
        /\ lastSync.session_id = sid
        /\ pc[r] = "calling" /\ session_id[r] = sid /\ cleared[r]
        /\ ~Has(sid)
        /\ res[q].status = 200 /\ session_id[q] = other
        /\ Has(other)
        /\ Transcript(other) = OwnTurns(q)
        /\ Len(Transcript(other)) = 2

====
